---------------------------- MODULE Spec2Model ----------------------------
(***************************************************************************)
(* The three scraping scripts of the repository as one state machine:      *)
(*   "bs4"     src/bs4-demo/main.py          (static pages, requests+bs4)  *)
(*   "quotes"  src/selenium-demo/main.py     (browser session, n pages)    *)
(*   "bluesky" src/selenium-demo/bluesky.py  (browser session, one page)   *)
(* The web site, the file system and the browser are the environment: a    *)
(* fetch, a removal, a write or a click may raise, and a page holds any    *)
(* short sequence of row elements, each with at most one field missing.    *)
(* A script may be run again on the output file the previous run left.     *)
(***************************************************************************)
EXTENDS Naturals, Sequences, FiniteSets

\* Bounds of the model.
MaxPages == 3      \* page counts 1..MaxPages are explored
MaxRows == 2       \* a page holds 0..MaxRows row elements
MaxRuns == 2       \* the script is run at most MaxRuns times on the same path

VARIABLES
    script,        \* which of the three scripts runs
    n_pages,       \* the configured page count (n_pages / n in the source)
    run,           \* ordinal of the current run on this output path
    pc,            \* position of the script
    fileExists,    \* os.path.exists(output path)
    file,          \* rows of the output file, in file order
    driver,        \* "none" | "open" | "quit": the browser session
    quitCount,     \* number of driver.quit() calls of this run
    page,          \* loop variable n / page
    elems,         \* row elements found on the current page (books/quotes/posts)
    i,             \* index in elems of the element being processed
    failure,       \* what raised in this run, "none" if nothing did
    outcome,       \* "running" | "normal" | "uncaught": how the process ended
    visited,       \* pages whose loop body was entered, in order
    pageCounts,    \* record counts of the pages whose row loop completed
    clicks,        \* completed clicks on the "next" link
    out,           \* what the run printed
    staleAtStart   \* whether the file held rows when this run started

vars == <<script, n_pages, run, pc, fileExists, file, driver, quitCount, page,
          elems, i, failure, outcome, visited, pageCounts, clicks, out,
          staleAtStart>>

Scripts == {"bs4", "quotes", "bluesky"}

\* Field names, in the order the script writes them.
FieldNames(s) ==
    IF s = "bs4" THEN <<"Title", "Price", "Rating">>
    ELSE IF s = "quotes" THEN <<"author", "text">>
    ELSE <<"name", "post_time", "text">>

NumFields(s) == Len(FieldNames(s))

\* A row element is the index of its one field whose selector matches
\* nothing, 0 when every field is present.  A bluesky post is itself the
\* text element, so only its name and time lookups can miss.
MissingChoices(s) == IF s = "bluesky" THEN 0..2 ELSE 0..NumFields(s)

ElemSeqs(s) ==
    UNION {[1..k -> MissingChoices(s)] : k \in 0..MaxRows}

\* The rows of the file.
HeaderRow(r) ==
    [kind |-> "header", run |-> r, page |-> 0, idx |-> 0,
     fields |-> <<"Title", "Price", "Rating">>]

DataRow(r, p, k, fs) ==
    [kind |-> "data", run |-> r, page |-> p, idx |-> k, fields |-> fs]

\* A printed line: what it says and the number it carries (0 when none).
Msg(t, n) == [tag |-> t, n |-> n]

\* os.remove(path): the file is gone, a later open(..., "a") starts empty.
os_remove_keeps(f) == f

os_remove(f) == <<>>

\* bs4: with open(csv_fp, "a"): header if f.tell() == 0, then the row.
WriteBookTwice(f, r, p, k, fs) ==
    LET g == IF Len(f) = 0 THEN <<HeaderRow(r)>> ELSE f
    IN  Append(Append(g, DataRow(r, p, k, fs)), DataRow(r, p, k, fs))

WriteBook(f, r, p, k, fs) ==
    LET g == IF Len(f) = 0 THEN Append(f, HeaderRow(r)) ELSE f
    IN  Append(g, DataRow(r, p, k, fs))

\* selenium scripts: with open(output_csv, 'a'): writerow([...]), no header.
WriteRow(f, r, p, k, fs) == Append(f, DataRow(r, p, k, fs))

\* bs4 / quotes: every field is present, its text is taken as it is.
FullRecord(s) == [j \in 1..NumFields(s) |-> "v"]

\* bluesky: a failed name or time lookup is caught and yields "Unknown".
PostRecord(e) == [j \in 1..3 |-> IF j = e THEN "Unknown" ELSE "v"]

\* range(1, n_pages + 1): the exclusive end of the page loop.
RangeEndShort == n_pages

RangeEnd == n_pages + 1

\* if page >= n: break
LastPageEarly(p) == p + 1 >= n_pages

LastPage(p) == p >= n_pages

Init ==
    /\ script \in Scripts
    /\ n_pages \in 1..MaxPages
    /\ run = 1
    /\ pc = "start"
    /\ fileExists = FALSE
    /\ file = <<>>
    /\ driver = "none"
    /\ quitCount = 0
    /\ page = 0
    /\ elems = <<>>
    /\ i = 0
    /\ failure = "none"
    /\ outcome = "running"
    /\ visited = <<>>
    /\ pageCounts = <<>>
    /\ clicks = 0
    /\ out = <<>>
    /\ staleAtStart = FALSE

\* An exception nothing catches: the interpreter prints it and exits.
Uncaught(cause) ==
    /\ pc' = "exit"
    /\ failure' = cause
    /\ outcome' = "uncaught"

\* if os.path.exists(p): os.remove(p)  -- the removal may raise.
RemoveOld(next) ==
    \/ /\ ~fileExists
       /\ pc' = next
       /\ UNCHANGED <<fileExists, file, failure, outcome>>
    \/ /\ fileExists
       /\ fileExists' = FALSE
       /\ file' = os_remove(file)
       /\ pc' = next
       /\ UNCHANGED <<failure, outcome>>
    \/ /\ fileExists
       /\ Uncaught("remove")
       /\ UNCHANGED <<fileExists, file>>

-----------------------------------------------------------------------------
\* src/bs4-demo/main.py

Bs4RemoveOld ==
    /\ script = "bs4" /\ pc = "start"
    /\ staleAtStart' = (Len(file) > 0)
    /\ RemoveOld("loop")
    /\ UNCHANGED <<script, n_pages, run, driver, quitCount, page, elems, i,
                   visited, pageCounts, clicks, out>>

Bs4NextPage ==
    /\ script = "bs4" /\ pc = "loop"
    /\ IF page + 1 < RangeEnd
       THEN /\ page' = page + 1
            /\ visited' = Append(visited, page + 1)
            /\ pc' = "fetch"
            /\ UNCHANGED outcome
       ELSE /\ pc' = "exit"
            /\ outcome' = "normal"
            /\ UNCHANGED <<page, visited>>
    /\ UNCHANGED <<script, n_pages, run, fileExists, file, driver, quitCount,
                   elems, i, failure, pageCounts, clicks, out, staleAtStart>>

Bs4Fetch ==
    /\ script = "bs4" /\ pc = "fetch"
    /\ \/ /\ Uncaught("fetch")
          /\ UNCHANGED <<elems, i>>
       \/ /\ \E es \in ElemSeqs(script) : elems' = es
          /\ i' = 0
          /\ pc' = "first"
          /\ UNCHANGED <<failure, outcome>>
    /\ UNCHANGED <<script, n_pages, run, fileExists, file, driver, quitCount,
                   page, visited, pageCounts, clicks, out, staleAtStart>>

Bs4PrintFirst ==
    /\ script = "bs4" /\ pc = "first"
    /\ IF Len(elems) = 0
       THEN Uncaught("empty") /\ UNCHANGED i
       ELSE /\ i' = 1
            /\ pc' = "book"
            /\ UNCHANGED <<failure, outcome>>
    /\ UNCHANGED <<script, n_pages, run, fileExists, file, driver, quitCount,
                   page, elems, visited, pageCounts, clicks, out, staleAtStart>>

Bs4Book ==
    /\ script = "bs4" /\ pc = "book"
    /\ \/ /\ elems[i] # 0
          /\ Uncaught("field")
          /\ UNCHANGED <<file, fileExists, i>>
       \/ /\ elems[i] = 0
          /\ Uncaught("write")
          /\ UNCHANGED <<file, fileExists, i>>
       \/ /\ elems[i] = 0
          /\ file' = WriteBook(file, run, page, i, FullRecord(script))
          /\ fileExists' = TRUE
          /\ i' = i + 1
          /\ pc' = IF i = Len(elems) THEN "pagedone" ELSE "book"
          /\ UNCHANGED <<failure, outcome>>
    /\ UNCHANGED <<script, n_pages, run, driver, quitCount, page, elems,
                   visited, pageCounts, clicks, out, staleAtStart>>

Bs4PageDone ==
    /\ script = "bs4" /\ pc = "pagedone"
    /\ out' = Append(out, Msg("page_done", page))
    /\ pageCounts' = Append(pageCounts, Len(elems))
    /\ pc' = "loop"
    /\ UNCHANGED <<script, n_pages, run, fileExists, file, driver, quitCount,
                   page, elems, i, failure, outcome, visited, clicks,
                   staleAtStart>>

-----------------------------------------------------------------------------
\* src/selenium-demo/main.py

\* An exception raised inside the try block: control goes to the except clause.
QuotesRaiseUncaught(cause) ==
    /\ pc' = "exit"
    /\ failure' = cause
    /\ outcome' = "uncaught"

QuotesRaise(cause) ==
    /\ pc' = "except"
    /\ failure' = cause
    /\ UNCHANGED outcome

QuotesCreateDriver ==
    /\ script = "quotes" /\ pc = "start"
    /\ driver' = "open"
    /\ staleAtStart' = (Len(file) > 0)
    /\ pc' = "remove"
    /\ UNCHANGED <<script, n_pages, run, fileExists, file, quitCount, page,
                   elems, i, failure, outcome, visited, pageCounts, clicks,
                   out>>

QuotesRemoveOld ==
    /\ script = "quotes" /\ pc = "remove"
    /\ RemoveOld("get")
    /\ UNCHANGED <<script, n_pages, run, driver, quitCount, page, elems, i,
                   visited, pageCounts, clicks, out, staleAtStart>>

QuotesGet ==
    /\ script = "quotes" /\ pc = "get"
    /\ \/ QuotesRaise("get")
       \/ /\ pc' = "loop"
          /\ UNCHANGED <<failure, outcome>>
    /\ UNCHANGED <<script, n_pages, run, fileExists, file, driver, quitCount,
                   page, elems, i, visited, pageCounts, clicks, out,
                   staleAtStart>>

QuotesNextPage ==
    /\ script = "quotes" /\ pc = "loop"
    /\ IF page + 1 < n_pages + 1
       THEN /\ page' = page + 1
            /\ visited' = Append(visited, page + 1)
            /\ out' = Append(out, Msg("scraping", page + 1))
            /\ pc' = "find"
       ELSE /\ pc' = "finally"
            /\ UNCHANGED <<page, visited, out>>
    /\ UNCHANGED <<script, n_pages, run, fileExists, file, driver, quitCount,
                   elems, i, failure, outcome, pageCounts, clicks,
                   staleAtStart>>

QuotesFind ==
    /\ script = "quotes" /\ pc = "find"
    /\ \E es \in ElemSeqs(script) :
          /\ elems' = es
          /\ i' = 1
          /\ IF Len(es) = 0
             THEN /\ pc' = "click"
                  /\ pageCounts' = Append(pageCounts, 0)
             ELSE /\ pc' = "quote"
                  /\ UNCHANGED pageCounts
    /\ UNCHANGED <<script, n_pages, run, fileExists, file, driver, quitCount,
                   page, failure, outcome, visited, clicks, out, staleAtStart>>

QuotesQuote ==
    /\ script = "quotes" /\ pc = "quote"
    /\ \/ /\ elems[i] # 0
          /\ QuotesRaise("field")
          /\ UNCHANGED <<file, fileExists, i, pageCounts>>
       \/ /\ elems[i] = 0
          /\ QuotesRaise("write")
          /\ UNCHANGED <<file, fileExists, i, pageCounts>>
       \/ /\ elems[i] = 0
          /\ file' = WriteRow(file, run, page, i, FullRecord(script))
          /\ fileExists' = TRUE
          /\ i' = i + 1
          /\ IF i = Len(elems)
             THEN /\ pc' = "click"
                  /\ pageCounts' = Append(pageCounts, Len(elems))
             ELSE /\ pc' = "quote"
                  /\ UNCHANGED pageCounts
          /\ UNCHANGED <<failure, outcome>>
    /\ UNCHANGED <<script, n_pages, run, driver, quitCount, page, elems,
                   visited, clicks, out, staleAtStart>>

QuotesClick ==
    /\ script = "quotes" /\ pc = "click"
    /\ \/ /\ QuotesRaise("click")
          /\ UNCHANGED <<clicks, out>>
       \/ /\ clicks' = clicks + 1
          /\ out' = Append(out, Msg("navigating", 0))
          /\ pc' = "check"
          /\ UNCHANGED <<failure, outcome>>
    /\ UNCHANGED <<script, n_pages, run, fileExists, file, driver, quitCount,
                   page, elems, i, visited, pageCounts, staleAtStart>>

QuotesCheckLast ==
    /\ script = "quotes" /\ pc = "check"
    /\ IF LastPage(page)
       THEN /\ out' = Append(out, Msg("reached_last", 0))
            /\ pc' = "finally"
       ELSE /\ pc' = "loop"
            /\ UNCHANGED out
    /\ UNCHANGED <<script, n_pages, run, fileExists, file, driver, quitCount,
                   page, elems, i, failure, outcome, visited, pageCounts,
                   clicks, staleAtStart>>

QuotesExcept ==
    /\ script = "quotes" /\ pc = "except"
    /\ out' = Append(out, Msg("error", 0))
    /\ pc' = "finally"
    /\ UNCHANGED <<script, n_pages, run, fileExists, file, driver, quitCount,
                   page, elems, i, failure, outcome, visited, pageCounts,
                   clicks, staleAtStart>>

QuotesFinally ==
    /\ script = "quotes" /\ pc = "finally"
    /\ out' = Append(out, Msg("completed", 0))
    /\ driver' = "quit"
    /\ quitCount' = quitCount + 1
    /\ outcome' = "normal"
    /\ pc' = "exit"
    /\ UNCHANGED <<script, n_pages, run, fileExists, file, page, elems, i,
                   failure, visited, pageCounts, clicks, staleAtStart>>

-----------------------------------------------------------------------------
\* src/selenium-demo/bluesky.py

\* An exception raised inside the try block: there is no except clause, the
\* finally clause runs and the exception goes on.
BlueskyRaise(cause) ==
    /\ pc' = "finally"
    /\ failure' = cause
    /\ UNCHANGED outcome

BlueskyCreateDriver ==
    /\ script = "bluesky" /\ pc = "start"
    /\ driver' = "open"
    /\ staleAtStart' = (Len(file) > 0)
    /\ pc' = "remove"
    /\ UNCHANGED <<script, n_pages, run, fileExists, file, quitCount, page,
                   elems, i, failure, outcome, visited, pageCounts, clicks,
                   out>>

BlueskyRemoveOld ==
    /\ script = "bluesky" /\ pc = "remove"
    /\ RemoveOld("get")
    /\ UNCHANGED <<script, n_pages, run, driver, quitCount, page, elems, i,
                   visited, pageCounts, clicks, out, staleAtStart>>

BlueskyGet ==
    /\ script = "bluesky" /\ pc = "get"
    /\ \/ BlueskyRaise("get")
       \/ /\ pc' = "wait"
          /\ UNCHANGED <<failure, outcome>>
    /\ UNCHANGED <<script, n_pages, run, fileExists, file, driver, quitCount,
                   page, elems, i, visited, pageCounts, clicks, out,
                   staleAtStart>>

BlueskyWait ==
    /\ script = "bluesky" /\ pc = "wait"
    /\ \/ BlueskyRaise("wait")
       \/ /\ pc' = "find"
          /\ UNCHANGED <<failure, outcome>>
    /\ UNCHANGED <<script, n_pages, run, fileExists, file, driver, quitCount,
                   page, elems, i, visited, pageCounts, clicks, out,
                   staleAtStart>>

BlueskyFind ==
    /\ script = "bluesky" /\ pc = "find"
    /\ \E es \in ElemSeqs(script) :
          /\ elems' = es
          /\ out' = Append(out, Msg("found", Len(es)))
          /\ IF Len(es) = 0
             THEN /\ pc' = "finally"
                  /\ pageCounts' = Append(pageCounts, 0)
             ELSE /\ pc' = "post"
                  /\ UNCHANGED pageCounts
    /\ i' = 1
    /\ page' = 1
    /\ visited' = Append(visited, 1)
    /\ UNCHANGED <<script, n_pages, run, fileExists, file, driver, quitCount,
                   failure, outcome, clicks, staleAtStart>>

BlueskyPost ==
    /\ script = "bluesky" /\ pc = "post"
    /\ \/ /\ BlueskyRaise("write")
          /\ UNCHANGED <<file, fileExists, i, pageCounts, out>>
       \/ /\ file' = WriteRow(file, run, page, i, PostRecord(elems[i]))
          /\ fileExists' = TRUE
          /\ out' = Append(out, Msg("poster", i))
          /\ i' = i + 1
          /\ IF i = Len(elems)
             THEN /\ pc' = "finally"
                  /\ pageCounts' = Append(pageCounts, Len(elems))
             ELSE /\ pc' = "post"
                  /\ UNCHANGED pageCounts
          /\ UNCHANGED <<failure, outcome>>
    /\ UNCHANGED <<script, n_pages, run, driver, quitCount, page, elems,
                   visited, clicks, staleAtStart>>

BlueskyFinally ==
    /\ script = "bluesky" /\ pc = "finally"
    /\ driver' = "quit"
    /\ quitCount' = quitCount + 1
    /\ outcome' = IF failure = "none" THEN "normal" ELSE "uncaught"
    /\ pc' = "exit"
    /\ UNCHANGED <<script, n_pages, run, fileExists, file, page, elems, i,
                   failure, visited, pageCounts, clicks, out, staleAtStart>>

-----------------------------------------------------------------------------
\* The same script is started again on the output path the last run left.
Rerun ==
    /\ pc = "exit" /\ run < MaxRuns
    /\ run' = run + 1
    /\ pc' = "start"
    /\ driver' = "none"
    /\ quitCount' = 0
    /\ page' = 0
    /\ elems' = <<>>
    /\ i' = 0
    /\ failure' = "none"
    /\ outcome' = "running"
    /\ visited' = <<>>
    /\ pageCounts' = <<>>
    /\ clicks' = 0
    /\ out' = <<>>
    /\ staleAtStart' = FALSE
    /\ UNCHANGED <<script, n_pages, fileExists, file>>

Next ==
    \/ Bs4RemoveOld \/ Bs4NextPage \/ Bs4Fetch \/ Bs4PrintFirst \/ Bs4Book
    \/ Bs4PageDone
    \/ QuotesCreateDriver \/ QuotesRemoveOld \/ QuotesGet \/ QuotesNextPage
    \/ QuotesFind \/ QuotesQuote \/ QuotesClick \/ QuotesCheckLast
    \/ QuotesExcept \/ QuotesFinally
    \/ BlueskyCreateDriver \/ BlueskyRemoveOld \/ BlueskyGet \/ BlueskyWait
    \/ BlueskyFind \/ BlueskyPost \/ BlueskyFinally
    \/ Rerun

Spec == Init /\ [][Next]_vars

TypeOK ==
    /\ script \in Scripts
    /\ n_pages \in 1..MaxPages
    /\ run \in 1..MaxRuns
    /\ driver \in {"none", "open", "quit"}
    /\ outcome \in {"running", "normal", "uncaught"}
    /\ failure \in {"none", "remove", "fetch", "empty", "field", "write",
                    "get", "wait", "click"}
    /\ page \in 0..MaxPages
    /\ Len(elems) <= MaxRows

-----------------------------------------------------------------------------
\* Vocabulary of the properties.

\* The rows the current run appended.
ThisRun(f) == SelectSeq(f, LAMBDA r : r.run = run)

DataRows(f) == SelectSeq(f, LAMBDA r : r.kind = "data")

HeaderRows(f) == SelectSeq(f, LAMBDA r : r.kind = "header")

\* <<page, index>> of each row, in file order.
Keys(rows) == [k \in 1..Len(rows) |-> <<rows[k].page, rows[k].idx>>]

RECURSIVE Sum(_)
Sum(counts) ==
    IF Len(counts) = 0 THEN 0
    ELSE Sum(SubSeq(counts, 1, Len(counts) - 1)) + counts[Len(counts)]

\* Records 1..m of page p.
PageKeys(p, m) == [k \in 1..m |-> <<p, k>>]

\* Every record of pages 1..Len(counts), each once, in page and row order.
RECURSIVE ExpectedKeys(_)
ExpectedKeys(counts) ==
    IF Len(counts) = 0 THEN <<>>
    ELSE ExpectedKeys(SubSeq(counts, 1, Len(counts) - 1))
            \o PageKeys(Len(counts), counts[Len(counts)])

Printed(t) == \E k \in 1..Len(out) : out[k].tag = t

RunKeys == Keys(DataRows(ThisRun(file)))

\* The run stopped inside the row loop of a page.
StoppedInPage == pc = "exit" /\ failure \in {"field", "write"}

-----------------------------------------------------------------------------
\* C1 (as stated): after every completed page and at the end of any run,
\* the number of data rows the run put in the output file equals the sum of
\* the record counts of the pages processed successfully so far.
C1_RowsEqualSuccessfulPages ==
    (pc = "loop" \/ pc = "exit") =>
        Len(DataRows(ThisRun(file))) = Sum(pageCounts)

\* C1 (amended): the data rows of the run are always the records of the
\* completed pages, each once and in order, followed by the first m records
\* of the page in progress; m = 0 after every completed page and at the end
\* of every run that did not stop inside a page's row loop, so there the row
\* count equals the sum of the completed pages' record counts.
C1_RowsArePagesPlusPrefix ==
    /\ \E m \in 0..Len(elems) :
          RunKeys = ExpectedKeys(pageCounts)
                        \o PageKeys(Len(pageCounts) + 1, m)
    /\ (pc = "loop" \/ (pc = "exit" /\ ~StoppedInPage)) =>
          /\ RunKeys = ExpectedKeys(pageCounts)
          /\ Len(RunKeys) = Sum(pageCounts)

\* C1 witness: a run ended inside the second page's row loop with a row of
\* that page already appended.
C1_Witness ==
    /\ StoppedInPage
    /\ Len(pageCounts) >= 1
    /\ Len(RunKeys) > Sum(pageCounts)

\* C2: whenever the output file holds a data row, it holds exactly one
\* header row and that header is the first row of the file.
C2_HeaderOnceFirst ==
    Len(DataRows(file)) >= 1 =>
        /\ Len(HeaderRows(file)) = 1
        /\ file[1].kind = "header"

\* C3: once the browser session exists, it is never released twice, and
\* when the run has ended it has been released exactly once.
C3_SessionReleasedOnce ==
    driver # "none" =>
        /\ quitCount <= 1
        /\ pc = "exit" => quitCount = 1

\* C4: a static run in which the fetch or the extraction of a page failed
\* still attempts every page up to the page count, and what it wrote is the
\* records of the successful pages only.
C4_FailedPageDoesNotStopRun ==
    (script = "bs4" /\ pc = "exit" /\ failure \in {"fetch", "field"}) =>
        /\ Len(visited) = n_pages
        /\ RunKeys = ExpectedKeys(pageCounts)

C6_MissingFieldYieldsEmpty ==
    /\ failure # "field"
    /\ \A k \in 1..Len(elems) :
          (k < i /\ elems[k] # 0) =>
              \E j \in 1..Len(file) :
                  file[j] = DataRow(run, page, k,
                              [f \in 1..NumFields(script) |->
                                  IF f = elems[k] THEN "" ELSE "v"])

\* C7: the file never holds rows of two different runs; in particular a row
\* of the current run is only ever in a file that holds no earlier run's row.
C7_NoRowsOfTwoRuns ==
    \A a, b \in 1..Len(file) : file[a].run = file[b].run

\* C7 witness: a later run started on a file that held rows and has written.
C7_Witness ==
    /\ run >= 2
    /\ staleAtStart
    /\ Len(file) > 0
    /\ file[1].run = run

\* C8: a static run enters the pages 1, 2, ... in increasing order, each
\* once, and a run in which nothing raised ends having entered and completed
\* exactly the pages 1..n_pages.
C8_StaticPagesInOrder ==
    script = "bs4" =>
        /\ \A k \in 1..Len(visited) : visited[k] = k
        /\ Len(pageCounts) <= Len(visited)
        /\ (pc = "exit" /\ failure = "none") =>
              /\ outcome = "normal"
              /\ Len(visited) = n_pages
              /\ Len(pageCounts) = n_pages

\* C8 witness: a static run of two pages ended with nothing raised.
C8_Witness ==
    /\ script = "bs4" /\ pc = "exit" /\ failure = "none"
    /\ n_pages >= 2
    /\ Len(pageCounts) = n_pages

\* C9: a page whose row selector matches nothing raises no error ("empty"
\* is the failure of print(books[0]) on an empty result list).
C9_EmptyPageIsOk ==
    ~(failure = "empty")

\* C10: in the quotes script a click only ever follows a scraped page, every
\* scraped page has been followed by its click when the loop comes round,
\* the last page is reported only after n_pages clicks, and a run in which
\* nothing raised has scraped n_pages pages and clicked n_pages times.
C10_ClickAfterEveryPage ==
    script = "quotes" =>
        /\ clicks <= Len(pageCounts)
        /\ pc = "loop" => clicks = Len(pageCounts)
        /\ Printed("reached_last") =>
              clicks = n_pages /\ Len(pageCounts) = n_pages
        /\ (pc = "exit" /\ failure = "none") =>
              /\ Len(visited) = n_pages
              /\ Len(pageCounts) = n_pages
              /\ clicks = n_pages
              /\ Printed("reached_last")

\* C10 witness: a run of two pages ended with nothing raised.
C10_Witness ==
    /\ script = "quotes" /\ pc = "exit" /\ failure = "none"
    /\ n_pages >= 2
    /\ clicks = n_pages

=============================================================================
